---- MODULE Spec2Model ----
(***************************************************************************)
(* A model of simple-smtp: the per-connection SMTP dialogue                *)
(* (cmd/smtp-server/main.go handleConnection), the authentication gate     *)
(* (middleware RateLimiter and Auth) and the delivery pipeline             *)
(* (SaveMailWorker, AddToRetry, schedulerWorker) over the shared store.    *)
(*                                                                         *)
(* Text is modelled as a sequence of one-character strings, so that        *)
(* strings.TrimSpace, strings.Trim, strings.HasPrefix and strings.Split    *)
(* are computed as the Go library computes them.                           *)
(***************************************************************************)
EXTENDS Integers, Sequences, FiniteSets, TLC

VARIABLES
    session,     \* c -> the SMTPSession of connection c
    pc,          \* c -> where handleConnection of c is blocked in a read
    authUser,    \* c -> the local variable username of the AUTH LOGIN case
    body,        \* c -> the strings.Builder of the DATA case
    eof,         \* c -> the client has closed its side of the connection
    last,        \* c -> the line last consumed and the reply written for it
    userCount,   \* store: auth:user:<u>, 0 when the key is absent
    userExp,     \* store: expiry time of auth:user:<u>, 0 when it has no TTL
    ipCount,     \* store: auth:ip:<addr>
    ipExp,       \* store: expiry time of auth:ip:<addr>
    failCount,   \* store: auth:fail:user:<u>
    failExp,     \* store: expiry time of auth:fail:user:<u>
    lockExp,     \* store: expiry time of lock:user:<u>, 0 when the key is absent
    queue,       \* store: list mail_queue, head first
    retryq,      \* store: sorted set mail_retry_queue, a set of [score, member]
    failedq,     \* store: list failed_mail_queue
    mailbox,     \* store: the hashes mailbox:<username>:<id>
    mails,       \* store: the hashes mail:<id>
    retrying,    \* the AddToRetry goroutines started and not yet run
    idSeq,       \* IDGen: the number of ids minted so far
    pushed,      \* history: every payload pushed onto mail_queue, with its pusher
    now          \* the clock, in seconds

vars == <<session, pc, authUser, body, eof, last, userCount, userExp, ipCount,
          ipExp, failCount, failExp, lockExp, queue, retryq, failedq, mailbox,
          mails, retrying, idSeq, pushed, now>>

sessVars  == <<session, pc, authUser, body, eof, last>>
rateVars  == <<userCount, userExp, ipCount, ipExp>>
failVars  == <<failCount, failExp, lockExp>>
pipeVars  == <<retryq, failedq, mailbox, mails, retrying>>

-----------------------------------------------------------------------------
(* Bounds of the model.                                                    *)

\* payloads pushed onto mail_queue in one behaviour
MaxPush == 2
\* ids minted in one behaviour
MaxIds == 3
\* body lines of one DATA phase
MaxBody == 1
\* payloads the scheduler pushes back in one behaviour
MaxPromote == 2
\* AUTH LOGIN exchanges from one address in one behaviour of the dialogue
MaxLogins == 2

\* the connections accepted in one behaviour
Conns == {1, 2}

-----------------------------------------------------------------------------
(* Text.                                                                   *)

Space == {" ", "\t", "\n", "\r"}

RECURSIVE TrimLeft(_, _)
TrimLeft(s, cutset) ==
    IF s = <<>> \/ Head(s) \notin cutset THEN s ELSE TrimLeft(Tail(s), cutset)

RECURSIVE TrimRight(_, _)
TrimRight(s, cutset) ==
    IF s = <<>> \/ s[Len(s)] \notin cutset THEN s
    ELSE TrimRight(SubSeq(s, 1, Len(s) - 1), cutset)

\* strings.Trim(s, cutset)
Trim(s, cutset) == TrimRight(TrimLeft(s, cutset), cutset)

\* strings.TrimSpace(s)
TrimSpace(s) == Trim(s, Space)

\* strings.HasPrefix(s, prefix)
HasPrefix(s, prefix) ==
    Len(s) >= Len(prefix) /\ SubSeq(s, 1, Len(prefix)) = prefix

\* s[n:]
From(s, n) == SubSeq(s, n + 1, Len(s))

\* strings.Split(s, sep) for a one-character sep
RECURSIVE Split(_, _)
Split(s, sep) ==
    IF \A i \in 1 .. Len(s) : s[i] # sep THEN <<s>>
    ELSE LET i == CHOOSE k \in 1 .. Len(s) :
                      s[k] = sep /\ \A j \in 1 .. k - 1 : s[j] # sep
         IN  <<SubSeq(s, 1, i - 1)>> \o Split(From(s, i), sep)

CRLF == <<"\r", "\n">>

kAUTH == <<"A", "U", "T", "H", " ", "L", "O", "G", "I", "N">>
kHELO == <<"H", "E", "L", "O">>
kMAIL == <<"M", "A", "I", "L", " ", "F", "R", "O", "M", ":">>
kRCPT == <<"R", "C", "P", "T", " ", "T", "O", ":">>
kDATA == <<"D", "A", "T", "A">>
kRSET == <<"R", "S", "E", "T">>
kQUIT == <<"Q", "U", "I", "T">>
kDOT  == <<".">>

-----------------------------------------------------------------------------
(* The registry (hash user:<u>, written by the provisioning service) and   *)
(* the client inputs.                                                      *)

Nil == <<"nil">>

uA == <<"a">>
uB == <<"b">>
uGhost == <<"g">>

\* every username a client can make the server decode
Names == {uA, uB, uGhost, <<>>}
Addrs == {"ip1", "ip2"}

eA == <<"a", "@", "x">>
eB == <<"b", "@", "x">>
eUpperA == <<"A", "@", "x">>
eLocal == <<"u", "@", "l">>

pwA == <<"p">>
pwB == <<"q">>

\* bcrypt.GenerateFromPassword
Hash(pw) == <<"bcrypt", pw>>

\* bcrypt.CompareHashAndPassword(hash, password) = nil
CompareHashAndPassword(hash, pw) == hash = Hash(pw)

\* the hashes user:<u> created by POST /create-user
Registry ==
    [u \in {uA, uB} |->
        IF u = uA THEN [password |-> Hash(pwA), email |-> eA]
                  ELSE [password |-> Hash(pwB), email |-> eB]]

\* rdb.HGet("user:"+u, field).Result(): the value, or Nil for redis.Nil
HGetUser(u, field) ==
    IF u \in DOMAIN Registry THEN Registry[u][field] ELSE Nil

\* base64.StdEncoding: the encodings of the one-byte texts the clients send
B64 == { [dec |-> <<"a">>, enc |-> <<"Y", "Q", "=", "=">>],
         [dec |-> <<"b">>, enc |-> <<"Y", "g", "=", "=">>],
         [dec |-> <<"g">>, enc |-> <<"Z", "w", "=", "=">>],
         [dec |-> <<"p">>, enc |-> <<"c", "A", "=", "=">>],
         [dec |-> <<"q">>, enc |-> <<"c", "Q", "=", "=">>] }

EncodeToString(t) == (CHOOSE e \in B64 : e.dec = t).enc

\* base64.StdEncoding.DecodeString(s), its error dropped: the bytes decoded
\* before the first invalid quantum, none for the inputs of this model
DecodeString(s) ==
    IF \E e \in B64 : e.enc = s THEN (CHOOSE e \in B64 : e.enc = s).dec
    ELSE <<>>

\* conn.RemoteAddr(): the source address of connection c
AddrOf(c) == IF c % 2 = 1 THEN "ip1" ELSE "ip2"

-----------------------------------------------------------------------------
(* Program constants.                                                      *)

IPLimit == 20
UserLimit == 5
RateWindow == 300
FailLimit == 5
LockDuration == 10
FailWindow == 600
MaxTries == 5
\* the clock when the server starts, in seconds after startEpochInMilli
StartTime == 1000

StateInit == "INIT"
StateHelo == "HELO"
StateMail == "MAIL"
StateRcpt == "RCPT"
StateData == "DATA"
States == {StateInit, StateHelo, StateMail, StateRcpt, StateData}

R220 == <<220, "SimpleSMTP ready">>
R221 == <<221, "Bye">>
R235 == <<235, "Authentication successful">>
R250Hello == <<250, "Hello">>
R250 == <<250, "OK">>
R250Accepted == <<250, "Message accepted">>
R334User == <<334, "VXNlcm5hbWU6">>
R334Pass == <<334, "UGFzc3dvcmQ6">>
R354 == <<354, "End data with <CR><LF>.<CR><LF>">>
R451Server == <<451, "server error">>
R451Local == <<451, "Local error">>
R451Processing == <<451, "Local error in processing">>
R451Queue == <<451, "Queue error">>
R454 == <<454, "Too many login attempts">>
R500 == <<500, "Syntax error, command unrecognized">>
R503 == <<503, "Bad sequence of commands">>
R530 == <<530, "Authentication required">>
R535 == <<535, "Authentication failed">>
R535Locked == <<535, "Account temporarily locked">>
NoReply == <<0, "">>

Code(r) == r[1]

-----------------------------------------------------------------------------
(* The session.                                                            *)

\* &SMTPSession{conn: conn}
NewSession ==
    [state |-> StateInit, userName |-> <<>>, mailFrom |-> <<>>, rcpt |-> <<>>,
     data |-> <<>>, authenticated |-> FALSE]

\* validateSession without its authentication test
validateSessionSkipsAuth(s, valid) ==
    IF s.state # valid THEN R503 ELSE NoReply

\* validateSession without its state test
validateSessionSkipsState(s, valid) ==
    IF ~s.authenticated THEN R530 ELSE NoReply

\* (s *SMTPSession) validateSession(valid, w): the reply it writes, or
\* NoReply when it returns true
validateSession(s, valid) ==
    IF ~s.authenticated THEN R530
    ELSE IF s.state # valid THEN R503
    ELSE NoReply

\* Reset that returns to the initial state
ResetToInit(s) ==
    [s EXCEPT !.mailFrom = <<>>, !.rcpt = <<>>, !.data = <<>>,
              !.state = StateInit]

\* Reset that forgets to clear the sender
ResetKeepsMailFrom(s) ==
    [s EXCEPT !.rcpt = <<>>, !.data = <<>>, !.state = StateHelo]

\* (s *SMTPSession) Reset()
Reset(s) ==
    [s EXCEPT !.mailFrom = <<>>, !.rcpt = <<>>, !.data = <<>>,
              !.state = StateHelo]

\* the case of the switch in handleConnection that a trimmed line selects
Dispatch(line) ==
    IF HasPrefix(line, kAUTH) THEN "AUTH"
    ELSE IF HasPrefix(line, kHELO) THEN "HELO"
    ELSE IF HasPrefix(line, kMAIL) THEN "MAIL"
    ELSE IF HasPrefix(line, kRCPT) THEN "RCPT"
    ELSE IF line = kDATA THEN "DATA"
    ELSE IF line = kRSET THEN "RSET"
    ELSE IF line = kQUIT THEN "QUIT"
    ELSE "default"

\* what a step leaves in last[c]: the line read, the reply written, and a
\* bit that every read of connection c flips
Served(c, raw, reply) ==
    [last EXCEPT ![c] = [line |-> raw, reply |-> reply, n |-> 1 - @.n]]

-----------------------------------------------------------------------------
(* The store operations of the authentication gate. A step is given the   *)
(* set f of the store operations that fail in it (a timeout, a dropped     *)
(* connection): the code drops the error of each of them. A failed         *)
(* operation changes nothing in the store.                                 *)

\* how far a counter may run past the last threshold the code compares it with
MaxOver == 2

\* a Validate that refuses an attempt that reaches a limit
ValidateAtLimit(userName, ip, f) ==
    LET ipN   == IF "incrIp" \in f THEN 0 ELSE ipCount[ip] + 1
        userN == IF "incrUser" \in f THEN 0 ELSE userCount[userName] + 1
    IN  [ok        |-> ~(ipN >= IPLimit \/ userN >= UserLimit),
         ipCount   |-> IF "incrIp" \in f THEN ipCount
                       ELSE [ipCount EXCEPT ![ip] = ipN],
         userCount |-> IF "incrUser" \in f THEN userCount
                       ELSE [userCount EXCEPT ![userName] = userN],
         ipExp     |-> IF ipN = 1 /\ "expireIp" \notin f
                       THEN [ipExp EXCEPT ![ip] = now + RateWindow]
                       ELSE ipExp,
         userExp   |-> IF userN = 1 /\ "expireUser" \notin f
                       THEN [userExp EXCEPT ![userName] = now + RateWindow]
                       ELSE userExp]

\* a Validate that renews the TTL of both counters at every attempt
ValidateExtends(userName, ip, f) ==
    [ValidateAtLimit(userName, ip, f) EXCEPT
        !.ok = ~(ipCount[ip] + 1 > IPLimit
                    \/ userCount[userName] + 1 > UserLimit),
        !.ipExp = [ipExp EXCEPT ![ip] = now + RateWindow],
        !.userExp = [userExp EXCEPT ![userName] = now + RateWindow]]

\* a Validate that counts and admits every attempt
ValidateAdmits(userName, ip, f) ==
    [ValidateAtLimit(userName, ip, f) EXCEPT !.ok = TRUE]

\* (r *RateLimiter) Validate(userName, ip): what it returns, and the store
\* it leaves
Validate(userName, ip, f) ==
    LET ipN   == IF "incrIp" \in f THEN 0 ELSE ipCount[ip] + 1
        userN == IF "incrUser" \in f THEN 0 ELSE userCount[userName] + 1
    IN  [ok        |-> ~(ipN > IPLimit \/ userN > UserLimit),
         ipCount   |-> IF "incrIp" \in f THEN ipCount
                       ELSE [ipCount EXCEPT ![ip] = ipN],
         userCount |-> IF "incrUser" \in f THEN userCount
                       ELSE [userCount EXCEPT ![userName] = userN],
         ipExp     |-> IF ipN = 1 /\ "expireIp" \notin f
                       THEN [ipExp EXCEPT ![ip] = now + RateWindow]
                       ELSE ipExp,
         userExp   |-> IF userN = 1 /\ "expireUser" \notin f
                       THEN [userExp EXCEPT ![userName] = now + RateWindow]
                       ELSE userExp]

\* a lock of the base duration whatever the count
LockForFlat(fails) == LockDuration

\* the lock duration IncreaseFails chooses for a failure count
LockFor(fails) ==
    IF fails >= 15 THEN LockDuration * 6
    ELSE IF fails >= 10 THEN LockDuration * 3
    ELSE LockDuration

\* an IncreaseFails whose Incr counts a failure twice
IncreaseFailsTwice(username, f) ==
    LET fails == failCount[username] + 2
    IN  [failCount |-> [failCount EXCEPT ![username] = fails],
         failExp   |-> IF fails = 2
                       THEN [failExp EXCEPT ![username] = now + FailWindow]
                       ELSE failExp,
         lockExp   |-> IF fails < FailLimit THEN lockExp
                       ELSE [lockExp EXCEPT ![username] = now + LockFor(fails)]]

\* (a *Auth) IncreaseFails(username): the store it leaves
IncreaseFails(username, f) ==
    LET fails == IF "incrFail" \in f THEN 0 ELSE failCount[username] + 1
    IN  [failCount |-> IF "incrFail" \in f THEN failCount
                       ELSE [failCount EXCEPT ![username] = fails],
         failExp   |-> IF fails = 1 /\ "expireFail" \notin f
                       THEN [failExp EXCEPT ![username] = now + FailWindow]
                       ELSE failExp,
         lockExp   |-> IF fails < FailLimit \/ "setLock" \in f THEN lockExp
                       ELSE [lockExp EXCEPT ![username] = now + LockFor(fails)]]

\* a CheckLock that never finds the lock flag
CheckLockNever(username, f) == FALSE

\* (a *Auth) CheckLock(username)
CheckLock(username, f) == "exists" \notin f /\ lockExp[username] # 0

\* a success that leaves the failure counter in place
DelFailsKeeps(username, f) == [failCount |-> failCount, failExp |-> failExp]

\* rdb.Del("auth:fail:user:"+username), its result dropped
DelFails(username, f) ==
    IF "del" \in f
    THEN [failCount |-> failCount, failExp |-> failExp]
    ELSE [failCount |-> [failCount EXCEPT ![username] = 0],
          failExp   |-> [failExp EXCEPT ![username] = 0]]

\* the counters stay within the range the model follows
CanCount(username, ip) ==
    /\ userCount[username] < UserLimit + MaxOver
    /\ ipCount[ip] < IPLimit + MaxOver
    /\ failCount[username] < 3 * FailLimit + MaxOver

-----------------------------------------------------------------------------
(* handleConnection: one action for each read the handler blocks in.       *)

\* the line a read of connection c returns: nothing once the client is gone
ReadString(c, raw) == IF eof[c] THEN <<>> ELSE raw

\* case strings.HasPrefix(line, "AUTH LOGIN"), up to the read of the username
CmdAuth(c, raw) ==
    /\ pc[c] = "cmd" /\ ~eof[c]
    /\ Dispatch(TrimSpace(raw)) = "AUTH"
    /\ pc' = [pc EXCEPT ![c] = "user"]
    /\ last' = Served(c, raw, R334User)
    /\ UNCHANGED <<session, authUser, body, eof>>
    /\ UNCHANGED <<rateVars, failVars, pipeVars, queue, idSeq, pushed, now>>

\* the AUTH LOGIN case from the username line to the read of the password
AuthUser(c, raw, f) ==
    /\ pc[c] = "user"
    /\ LET username == DecodeString(TrimSpace(ReadString(c, raw)))
           v == Validate(username, AddrOf(c), f)
       IN  /\ CanCount(username, AddrOf(c))
           /\ userCount' = v.userCount /\ userExp' = v.userExp
           /\ ipCount' = v.ipCount /\ ipExp' = v.ipExp
           /\ IF ~v.ok
              THEN /\ last' = Served(c, ReadString(c, raw), R454)
                   /\ pc' = [pc EXCEPT ![c] = "cmd"]
                   /\ UNCHANGED authUser
              ELSE IF CheckLock(username, f)
              THEN /\ last' = Served(c, ReadString(c, raw), R535Locked)
                   /\ pc' = [pc EXCEPT ![c] = "cmd"]
                   /\ UNCHANGED authUser
              ELSE /\ last' = Served(c, ReadString(c, raw), R334Pass)
                   /\ pc' = [pc EXCEPT ![c] = "pass"]
                   /\ authUser' = [authUser EXCEPT ![c] = username]
    /\ UNCHANGED <<session, body, eof>>
    /\ UNCHANGED <<failVars, pipeVars, queue, idSeq, pushed, now>>

\* the AUTH LOGIN case from the password line to its end
AuthPass(c, raw, f) ==
    /\ pc[c] = "pass"
    /\ LET username == authUser[c]
           password == DecodeString(TrimSpace(ReadString(c, raw)))
           dbHashPass == HGetUser(username, "password")
           inc == IncreaseFails(username, f)
           del == DelFails(username, f)
           line == ReadString(c, raw)
       IN  IF "hget" \notin f /\ dbHashPass = Nil
           THEN /\ failCount' = inc.failCount /\ failExp' = inc.failExp
                /\ lockExp' = inc.lockExp
                /\ last' = Served(c, line, R535)
                /\ UNCHANGED session
           ELSE IF "hget" \in f
           THEN /\ last' = Served(c, line, R451Local)
                /\ UNCHANGED <<session, failVars>>
           ELSE IF ~CompareHashAndPassword(dbHashPass, password)
           THEN /\ failCount' = inc.failCount /\ failExp' = inc.failExp
                /\ lockExp' = inc.lockExp
                /\ last' = Served(c, line, R535)
                /\ UNCHANGED session
           ELSE /\ session' = [session EXCEPT ![c].authenticated = TRUE,
                                              ![c].state = StateInit,
                                              ![c].userName = username]
                /\ failCount' = del.failCount /\ failExp' = del.failExp
                /\ last' = Served(c, line, R235)
                /\ UNCHANGED lockExp
    /\ pc' = [pc EXCEPT ![c] = "cmd"]
    /\ authUser' = [authUser EXCEPT ![c] = <<>>]
    /\ UNCHANGED <<body, eof>>
    /\ UNCHANGED <<rateVars, pipeVars, queue, idSeq, pushed, now>>

\* the password line when IncreaseFails is followed store operation by
\* store operation: a failure whose Incr returns 1 stops before the Expire
AuthPassSplit(c, raw, f) ==
    LET username == authUser[c]
        password == DecodeString(TrimSpace(ReadString(c, raw)))
        dbHashPass == HGetUser(username, "password")
        failed == \/ dbHashPass = Nil
                  \/ ~CompareHashAndPassword(dbHashPass, password)
    IN  IF pc[c] = "pass" /\ failed /\ f = {} /\ failCount[username] = 0
        THEN /\ failCount' = [failCount EXCEPT ![username] = 1]
             /\ pc' = [pc EXCEPT ![c] = "expire"]
             /\ last' = Served(c, ReadString(c, raw), NoReply)
             /\ UNCHANGED <<session, authUser, body, eof, failExp, lockExp>>
             /\ UNCHANGED <<rateVars, pipeVars, queue, idSeq, pushed, now>>
        ELSE AuthPass(c, raw, f)

\* an IncreaseFails that forgets the Expire
FailExpireForgets(c) ==
    /\ pc[c] = "expire"
    /\ last' = [last EXCEPT ![c].reply = R535]
    /\ pc' = [pc EXCEPT ![c] = "cmd"]
    /\ authUser' = [authUser EXCEPT ![c] = <<>>]
    /\ UNCHANGED <<session, body, eof, failVars>>
    /\ UNCHANGED <<rateVars, pipeVars, queue, idSeq, pushed, now>>

\* IncreaseFails from the Expire on, and the 535 that follows: Expire gives
\* the key its TTL if the key still exists
FailExpire(c) ==
    /\ pc[c] = "expire"
    /\ failExp' = IF failCount[authUser[c]] > 0
                  THEN [failExp EXCEPT ![authUser[c]] = now + FailWindow]
                  ELSE failExp
    /\ last' = [last EXCEPT ![c].reply = R535]
    /\ pc' = [pc EXCEPT ![c] = "cmd"]
    /\ authUser' = [authUser EXCEPT ![c] = <<>>]
    /\ UNCHANGED <<session, body, eof, failCount, lockExp>>
    /\ UNCHANGED <<rateVars, pipeVars, queue, idSeq, pushed, now>>

\* case strings.HasPrefix(line, "HELO")
CmdHelo(c, raw) ==
    /\ pc[c] = "cmd" /\ ~eof[c]
    /\ Dispatch(TrimSpace(raw)) = "HELO"
    /\ LET v == validateSession(session[c], StateInit)
       IN  IF v # NoReply
           THEN /\ last' = Served(c, raw, v)
                /\ UNCHANGED session
           ELSE /\ session' = [session EXCEPT ![c].state = StateHelo]
                /\ last' = Served(c, raw, R250Hello)
    /\ UNCHANGED <<pc, authUser, body, eof>>
    /\ UNCHANGED <<rateVars, failVars, pipeVars, queue, idSeq, pushed, now>>

\* the address the MAIL FROM case compares with the bound email
MailAddr(line) == Trim(TrimSpace(From(line, Len(kMAIL))), {"<", ">"})

\* case strings.HasPrefix(line, "MAIL FROM:")
CmdMail(c, raw, f) ==
    /\ pc[c] = "cmd" /\ ~eof[c]
    /\ Dispatch(TrimSpace(raw)) = "MAIL"
    /\ LET line == TrimSpace(raw)
           v == validateSession(session[c], StateHelo)
           dbUserEmail == HGetUser(session[c].userName, "email")
       IN  IF v # NoReply
           THEN /\ last' = Served(c, raw, v)
                /\ UNCHANGED session
           ELSE IF ("hget" \notin f /\ dbUserEmail = Nil)
                   \/ session[c].userName = <<>>
           THEN /\ last' = Served(c, raw, R535)
                /\ UNCHANGED session
           ELSE IF "hget" \in f
           THEN /\ last' = Served(c, raw, R451Local)
                /\ UNCHANGED session
           ELSE IF dbUserEmail # MailAddr(line)
           THEN /\ last' = Served(c, raw, R535)
                /\ UNCHANGED session
           ELSE /\ session' = [session EXCEPT ![c].state = StateMail,
                                              ![c].mailFrom = line]
                /\ last' = Served(c, raw, R250)
    /\ UNCHANGED <<pc, authUser, body, eof>>
    /\ UNCHANGED <<rateVars, failVars, pipeVars, queue, idSeq, pushed, now>>

\* case strings.HasPrefix(line, "RCPT TO:")
CmdRcpt(c, raw) ==
    /\ pc[c] = "cmd" /\ ~eof[c]
    /\ Dispatch(TrimSpace(raw)) = "RCPT"
    /\ LET v == validateSession(session[c], StateMail)
       IN  IF v # NoReply
           THEN /\ last' = Served(c, raw, v)
                /\ UNCHANGED session
           ELSE /\ session' = [session EXCEPT ![c].state = StateRcpt,
                                              ![c].rcpt = TrimSpace(raw)]
                /\ last' = Served(c, raw, R250)
    /\ UNCHANGED <<pc, authUser, body, eof>>
    /\ UNCHANGED <<rateVars, failVars, pipeVars, queue, idSeq, pushed, now>>

\* case line == "DATA", up to the first read of the body
CmdData(c, raw) ==
    /\ pc[c] = "cmd" /\ ~eof[c]
    /\ Dispatch(TrimSpace(raw)) = "DATA"
    /\ LET v == validateSession(session[c], StateRcpt)
       IN  IF v # NoReply
           THEN /\ last' = Served(c, raw, v)
                /\ UNCHANGED <<session, pc, body>>
           ELSE /\ session' = [session EXCEPT ![c].state = StateData]
                /\ last' = Served(c, raw, R354)
                /\ pc' = [pc EXCEPT ![c] = "body"]
                /\ body' = [body EXCEPT ![c] = <<>>]
    /\ UNCHANGED <<authUser, eof>>
    /\ UNCHANGED <<rateVars, failVars, pipeVars, queue, idSeq, pushed, now>>

\* case line == "RSET"
CmdRset(c, raw) ==
    /\ pc[c] = "cmd" /\ ~eof[c]
    /\ Dispatch(TrimSpace(raw)) = "RSET"
    /\ session' = [session EXCEPT ![c] = Reset(@)]
    /\ last' = Served(c, raw, R250)
    /\ UNCHANGED <<pc, authUser, body, eof>>
    /\ UNCHANGED <<rateVars, failVars, pipeVars, queue, idSeq, pushed, now>>

\* case line == "QUIT", and the deferred conn.Close()
CmdQuit(c, raw) ==
    /\ pc[c] = "cmd" /\ ~eof[c]
    /\ Dispatch(TrimSpace(raw)) = "QUIT"
    /\ pc' = [pc EXCEPT ![c] = "closed"]
    /\ last' = Served(c, raw, R221)
    /\ UNCHANGED <<session, authUser, body, eof>>
    /\ UNCHANGED <<rateVars, failVars, pipeVars, queue, idSeq, pushed, now>>

\* the default case
CmdDefault(c, raw) ==
    /\ pc[c] = "cmd" /\ ~eof[c]
    /\ Dispatch(TrimSpace(raw)) = "default"
    /\ last' = Served(c, raw, R500)
    /\ UNCHANGED <<session, pc, authUser, body, eof>>
    /\ UNCHANGED <<rateVars, failVars, pipeVars, queue, idSeq, pushed, now>>

\* the read of a command line fails: 451 and return
CmdReadError(c) ==
    /\ pc[c] = "cmd" /\ eof[c]
    /\ pc' = [pc EXCEPT ![c] = "closed"]
    /\ last' = Served(c, <<>>, R451Server)
    /\ UNCHANGED <<session, authUser, body, eof>>
    /\ UNCHANGED <<rateVars, failVars, pipeVars, queue, idSeq, pushed, now>>

\* the client closes its side of the connection
ClientClose(c) ==
    /\ pc[c] # "closed" /\ ~eof[c]
    /\ eof' = [eof EXCEPT ![c] = TRUE]
    /\ UNCHANGED <<session, pc, authUser, body, last>>
    /\ UNCHANGED <<rateVars, failVars, pipeVars, queue, idSeq, pushed, now>>

-----------------------------------------------------------------------------
(* Messages. A Go value of the message map is a pair <<type, value>> for a *)
(* number and a text otherwise; a JSON payload holds bare numbers.         *)

\* the low 16 bits of an id: the machine id sonyflake takes from the host
MachineID == 5
\* the spacing of float64 values at the size of the ids minted from the
\* 249th day after startEpochInMilli on (ids of 56 bits, 53 bits of mantissa)
FloatGrain == 8

\* an id source that hands out one id again and again
NextIDStuck(n) == 65536 + MachineID

\* IDGen.NextID() for the n-th id of the process: time and sequence above
\* the 16 bits of the machine id
NextID(n) == n * 65536 + MachineID

\* the float64 nearest to an integer, ties to the even mantissa
Float64(n) ==
    LET q == n \div FloatGrain
        r == n % FloatGrain
    IN  IF 2 * r < FloatGrain THEN q * FloatGrain
        ELSE IF 2 * r > FloatGrain THEN (q + 1) * FloatGrain
        ELSE IF q % 2 = 0 THEN q * FloatGrain
        ELSE (q + 1) * FloatGrain

\* json.Marshal of a message map
Marshal(m) ==
    [m EXCEPT !.id = @[2], !.time = @[2], !.retry = @[2]]

\* json.Unmarshal into a map[string]any: every number becomes a float64
Unmarshal(p) ==
    [p EXCEPT !.id = <<"float64", Float64(@)>>,
              !.time = <<"float64", @>>,
              !.retry = <<"float64", @>>]

\* the map msg the DATA case builds; error stands for the absent key
NewMessage(s, id) ==
    [id |-> <<"int64", id>>, username |-> s.userName, from |-> s.mailFrom,
     to |-> s.rcpt, data |-> s.data, time |-> <<"int64", now>>,
     retry |-> <<"int", 0>>, error |-> Nil]

\* rdb.LPush("mail_queue", payload)
LPush(q, payload) == <<payload>> \o q

\* what the history keeps of a push
Pushed(payload, by) == [id |-> payload.id, retry |-> payload.retry, by |-> by]

\* the number of lines written to the strings.Builder
Lines(b) == Cardinality({i \in 1 .. Len(b) : b[i] = "\n"})

\* the DATA case from a body line on: the loop, and after the terminator
\* the commit
DataLine(c, raw, f) ==
    /\ pc[c] = "body"
    /\ LET dl == TrimSpace(ReadString(c, raw))
           s  == [session[c] EXCEPT !.data = body[c]]
           id == NextID(idSeq + 1)
           payload == Marshal(NewMessage(s, id))
       IN  IF dl # kDOT
           THEN /\ Lines(body[c]) < MaxBody
                /\ body' = [body EXCEPT ![c] = @ \o dl \o <<"\n">>]
                /\ last' = Served(c, ReadString(c, raw), NoReply)
                /\ UNCHANGED <<session, pc, queue, idSeq, pushed>>
           ELSE /\ Len(pushed) < MaxPush /\ idSeq < MaxIds
                /\ pc' = [pc EXCEPT ![c] = "cmd"]
                /\ UNCHANGED body
                /\ IF "nextid" \in f
                   THEN /\ session' = [session EXCEPT ![c] = s]
                        /\ last' = Served(c, raw, R451Processing)
                        /\ UNCHANGED <<queue, idSeq, pushed>>
                   ELSE IF "lpush" \in f
                   THEN /\ session' = [session EXCEPT ![c] = s]
                        /\ idSeq' = idSeq + 1
                        /\ last' = Served(c, raw, R451Queue)
                        /\ UNCHANGED <<queue, pushed>>
                   ELSE /\ session' = [session EXCEPT ![c] = Reset(s)]
                        /\ idSeq' = idSeq + 1
                        /\ queue' = LPush(queue, payload)
                        /\ pushed' = Append(pushed, Pushed(payload, "commit"))
                        /\ last' = Served(c, raw, R250Accepted)
    /\ UNCHANGED <<authUser, eof>>
    /\ UNCHANGED <<rateVars, failVars, pipeVars, now>>

-----------------------------------------------------------------------------
(* The delivery pipeline.                                                  *)

LocalDomains == {<<"l">>}

\* getDomain(email)
getDomain(email) ==
    LET parts == Split(email, "@")
    IN  IF Len(parts) # 2 THEN <<>> ELSE parts[2]

\* what HSet writes under mail:<id>
MailRecord(m) ==
    [key |-> m.id[2], from |-> m.from, to |-> m.to, username |-> m.username,
     data |-> m.data, retry |-> m.retry[2]]

\* what HSet writes under mailbox:<username>:<id>
MailboxRecord(m) ==
    [key |-> <<m.username, m.id[2]>>, from |-> m.from, to |-> m.to,
     data |-> m.data, retry |-> m.retry[2]]

\* an HSet that answers without writing
HSetDrops(hashes, rec) == hashes

\* HSet: the fields of an existing hash are overwritten
HSet(hashes, rec) == {h \in hashes : h.key # rec.key} \cup {rec}

\* one turn of the loop of SaveMailWorker; f holds what fails in it
SaveMailWorker(f) ==
    /\ queue # <<>>
    /\ IF "brpop" \in f
       THEN UNCHANGED <<queue, mailbox, mails, retrying>>
       ELSE LET msg == Unmarshal(queue[Len(queue)])
                domain == getDomain(msg.to)
                local == domain \in LocalDomains
                go(bucket) == retrying \cup {[msg |-> msg, bucket |-> bucket]}
                \* go AddToRetry(msg, err, bucket)
            IN  /\ queue' = SubSeq(queue, 1, Len(queue) - 1)
                /\ IF local /\ "hsetMailbox" \in f
                   THEN retrying' = go(3) /\ UNCHANGED <<mailbox, mails>>
                   ELSE IF ~local /\ "lookupMX" \in f
                   THEN retrying' = go(2) /\ UNCHANGED <<mailbox, mails>>
                   ELSE IF ~local /\ "SendSMTP" \in f
                   THEN retrying' = go(3) /\ UNCHANGED <<mailbox, mails>>
                   ELSE /\ mailbox' = IF local
                                      THEN HSet(mailbox, MailboxRecord(msg))
                                      ELSE mailbox
                        /\ IF "hsetMail" \in f
                           THEN retrying' = go(1) /\ UNCHANGED mails
                           ELSE /\ mails' = HSet(mails, MailRecord(msg))
                                /\ UNCHANGED retrying
    /\ UNCHANGED <<sessVars, rateVars, failVars, retryq, failedq, idSeq,
                   pushed, now>>

\* the count AddToRetry reads from msg["retry"]
Tries(m) == IF m.retry[1] = "float64" THEN m.retry[2] ELSE 0

\* redis ZAdd: a member already in the set only changes its score
ZAdd(zset, score, member) ==
    {e \in zset : e.member # member} \cup {[score |-> score, member |-> member]}

\* AddToRetry(msg, err, nextAttempt), run as a goroutine of its own
AddToRetry(r, f) ==
    /\ r \in retrying
    /\ retrying' = retrying \ {r}
    /\ LET msg   == [r.msg EXCEPT !.error = <<"error">>]
           tries == Tries(msg) + 1
       IN  IF tries > MaxTries
           THEN /\ failedq' = IF "rpush" \in f THEN failedq
                              ELSE Append(failedq, Marshal(msg))
                /\ UNCHANGED retryq
           ELSE /\ retryq' =
                      IF "zadd" \in f THEN retryq
                      ELSE ZAdd(retryq, r.bucket,
                                Marshal([msg EXCEPT !.retry = <<"int", tries>>]))
                /\ UNCHANGED failedq
    /\ UNCHANGED <<sessVars, rateVars, failVars, queue, mailbox, mails, idSeq,
                   pushed, now>>

\* ZRangeByScore("mail_retry_queue", min, max)
ZRangeByScore(zset, min, max) ==
    {e \in zset : min <= e.score /\ e.score <= max}

\* the orders in which a range of the sorted set can be returned: by score,
\* members of one score in the order of their bytes, which the model leaves open
Sorted(es) ==
    {sq \in [1 .. Cardinality(es) -> es] :
        /\ \A e \in es : \E i \in DOMAIN sq : sq[i] = e
        /\ \A i, j \in DOMAIN sq : i < j => sq[i].score <= sq[j].score}

RECURSIVE PushAll(_, _)
PushAll(q, ms) ==
    IF ms = <<>> THEN q ELSE PushAll(LPush(q, Head(ms).member), Tail(ms))

\* schedulerWorker(). No function of the repository calls it; the model lets
\* it run at any time, as a timer that an operator adds would
schedulerWorker(f) ==
    /\ LET due == IF "zrange" \in f THEN {}
                  ELSE ZRangeByScore(retryq, 0, now)
       IN  /\ due # {}
           /\ \E ms \in Sorted(due) :
                /\ queue' = PushAll(queue, ms)
                /\ pushed' = pushed \o
                       [i \in 1 .. Len(ms) |-> Pushed(ms[i].member, "scheduler")]
           /\ retryq' = retryq \ due
    /\ UNCHANGED <<sessVars, rateVars, failVars, failedq, mailbox, mails,
                   retrying, idSeq, now>>

-----------------------------------------------------------------------------
(* Time. A key with a TTL is gone once the clock reaches its expiry.       *)

\* seconds of one behaviour
MaxElapsed == 20

Expired(exp, t) == exp # 0 /\ exp <= t

\* d seconds pass, within the first horizon seconds
TickWithin(d, horizon) ==
    /\ now + d <= StartTime + horizon
    /\ now' = now + d
    /\ userCount' = [u \in Names |->
                        IF Expired(userExp[u], now') THEN 0 ELSE userCount[u]]
    /\ userExp' = [u \in Names |->
                        IF Expired(userExp[u], now') THEN 0 ELSE userExp[u]]
    /\ ipCount' = [a \in Addrs |->
                        IF Expired(ipExp[a], now') THEN 0 ELSE ipCount[a]]
    /\ ipExp' = [a \in Addrs |->
                        IF Expired(ipExp[a], now') THEN 0 ELSE ipExp[a]]
    /\ failCount' = [u \in Names |->
                        IF Expired(failExp[u], now') THEN 0 ELSE failCount[u]]
    /\ failExp' = [u \in Names |->
                        IF Expired(failExp[u], now') THEN 0 ELSE failExp[u]]
    /\ lockExp' = [u \in Names |->
                        IF Expired(lockExp[u], now') THEN 0 ELSE lockExp[u]]
    /\ UNCHANGED <<sessVars, pipeVars, queue, idSeq, pushed>>

\* d seconds pass
Tick(d) == TickWithin(d, MaxElapsed)

-----------------------------------------------------------------------------
(* The lines the clients send.                                             *)

Line(text) == text \o CRLF
Bracket(addr) == <<"<">> \o addr \o <<">">>

lAUTH == Line(kAUTH)
lHELO == Line(kHELO \o <<" ", "h">>)
lMAILa == Line(kMAIL \o Bracket(eA))
lMAILb == Line(kMAIL \o Bracket(eB))
lMAILupper == Line(kMAIL \o Bracket(eUpperA))
lRCPT == Line(kRCPT \o Bracket(eLocal))
lDATA == Line(kDATA)
lRSET == Line(kRSET)
lQUIT == Line(kQUIT)
lNOOP == Line(<<"N", "O", "O", "P">>)
lDOT == Line(kDOT)
lTEXT == Line(<<"h", "i">>)

CmdLines == {lAUTH, lHELO, lMAILa, lMAILb, lMAILupper, lRCPT, lDATA, lRSET,
             lQUIT, lNOOP}
UserLines == {Line(EncodeToString(uA))}
PassLines == {Line(EncodeToString(pwA)), Line(EncodeToString(pwB))}
BodyLines == {lTEXT, lDOT}

-----------------------------------------------------------------------------
(* Initial states: the handlers have written the greeting, the store holds *)
(* the registry and nothing else.                                          *)

InitSession ==
    /\ session = [c \in Conns |-> NewSession]
    /\ pc = [c \in Conns |-> "cmd"]
    /\ authUser = [c \in Conns |-> <<>>]
    /\ body = [c \in Conns |-> <<>>]
    /\ eof = [c \in Conns |-> FALSE]
    /\ last = [c \in Conns |-> [line |-> <<>>, reply |-> R220, n |-> 0]]

InitPipe ==
    /\ queue = <<>> /\ retryq = {} /\ failedq = <<>>
    /\ mailbox = {} /\ mails = {} /\ retrying = {}
    /\ idSeq = 0 /\ pushed = <<>>
    /\ now = StartTime

InitGate ==
    /\ userCount = [u \in Names |-> 0] /\ userExp = [u \in Names |-> 0]
    /\ ipCount = [a \in Addrs |-> 0] /\ ipExp = [a \in Addrs |-> 0]
    /\ failCount = [u \in Names |-> 0] /\ failExp = [u \in Names |-> 0]
    /\ lockExp = [u \in Names |-> 0]

Init == InitSession /\ InitPipe /\ InitGate

-----------------------------------------------------------------------------
(* Spec: the dialogue of one connection, every command line in every       *)
(* state. The registry read, the id source and the queue push may fail;    *)
(* the store of the gate answers.                                          *)

Solo == {1}

\* what may fail in a step that reads the registry
RegistryFaults == {{}, {"hget"}}
\* what may fail in a commit
CommitFaults == {{}, {"nextid"}, {"lpush"}}

Command(c, raw, faults) ==
    \/ CmdAuth(c, raw)
    \/ CmdHelo(c, raw)
    \/ \E f \in faults : CmdMail(c, raw, f)
    \/ CmdRcpt(c, raw)
    \/ CmdData(c, raw)
    \/ CmdRset(c, raw)
    \/ CmdQuit(c, raw)
    \/ CmdDefault(c, raw)

Next ==
    \/ \E c \in Solo, raw \in CmdLines : Command(c, raw, RegistryFaults)
    \/ \E c \in Solo, raw \in UserLines :
            ipCount[AddrOf(c)] < MaxLogins /\ AuthUser(c, raw, {})
    \/ \E c \in Solo, raw \in PassLines, f \in RegistryFaults :
            AuthPass(c, raw, f)
    \/ \E c \in Solo, raw \in BodyLines, f \in CommitFaults :
            DataLine(c, raw, f)
    \/ \E c \in Solo : CmdReadError(c)
    \/ \E c \in Solo : ClientClose(c)

Spec == Init /\ [][Next]_vars

(* SpecOk: the same dialogue over a store that answers every operation.    *)

NextOk ==
    \/ \E c \in Solo, raw \in CmdLines : Command(c, raw, {{}})
    \/ \E c \in Solo, raw \in UserLines :
            ipCount[AddrOf(c)] < MaxLogins /\ AuthUser(c, raw, {})
    \/ \E c \in Solo, raw \in PassLines : AuthPass(c, raw, {})
    \/ \E c \in Solo, raw \in BodyLines : DataLine(c, raw, {})
    \/ \E c \in Solo : CmdReadError(c)
    \/ \E c \in Solo : ClientClose(c)

SpecOk == Init /\ [][NextOk]_vars

-----------------------------------------------------------------------------
(* SpecAuth: the authentication gate. Two connections run AUTH LOGIN       *)
(* exchanges against a store that answers every operation, and time        *)
(* passes. The store may already hold attempts that other identities made  *)
(* from the first address in the window that begins with the behaviour.    *)

\* attempts from the first address that the store may hold at the start
EarlierAttempts == 18
\* failed attempts against the first user that the store may hold at the
\* start, made in an earlier rate window
EarlierFails == 4

AuthUserLines == {Line(EncodeToString(uA))}
TickSteps == {LockDuration}

InitAuth ==
    /\ InitSession /\ InitPipe
    /\ userCount = [u \in Names |-> 0] /\ userExp = [u \in Names |-> 0]
    /\ \E n \in {0, EarlierAttempts} :
         /\ ipCount = [a \in Addrs |-> IF a = "ip1" THEN n ELSE 0]
         /\ ipExp = [a \in Addrs |->
                        IF a = "ip1" /\ n > 0 THEN now + RateWindow ELSE 0]
    /\ \E n \in {0, EarlierFails} :
         /\ failCount = [u \in Names |-> IF u = uA THEN n ELSE 0]
         /\ failExp = [u \in Names |->
                          IF u = uA /\ n > 0 THEN now + RateWindow ELSE 0]
    /\ lockExp = [u \in Names |-> 0]

NextAuth ==
    \/ \E c \in Conns : CmdAuth(c, lAUTH)
    \/ \E c \in Conns, raw \in AuthUserLines : AuthUser(c, raw, {})
    \/ \E c \in Conns, raw \in PassLines : AuthPass(c, raw, {})
    \/ \E d \in TickSteps : Tick(d)

SpecAuth == InitAuth /\ [][NextAuth]_vars

-----------------------------------------------------------------------------
(* SpecPipe: the way of a message. One user logs in and submits messages   *)
(* over a store that answers the dialogue; the delivery worker takes them  *)
(* from the queue, a delivery or the write of the mail record may fail,    *)
(* and failed messages go through the retry set back onto the queue.       *)

PipeLines == {lHELO, lMAILa, lRCPT, lDATA}
GoodPassLines == {Line(EncodeToString(pwA))}
DeliveryFaults == {{}, {"lookupMX"}, {"SendSMTP"}, {"hsetMail"}}
RetryFaults == {{}, {"zadd"}}

\* the history of pushes has room for what the promoter would push
PromoteRoom ==
    Len(pushed) + Cardinality(ZRangeByScore(retryq, 0, now))
        <= MaxPush + MaxPromote

NextPipe ==
    \/ \E c \in Solo : CmdAuth(c, lAUTH)
    \/ \E c \in Solo, raw \in UserLines :
            ipCount[AddrOf(c)] < MaxLogins /\ AuthUser(c, raw, {})
    \/ \E c \in Solo, raw \in GoodPassLines : AuthPass(c, raw, {})
    \/ \E c \in Solo, raw \in PipeLines : CmdHelo(c, raw)
    \/ \E c \in Solo, raw \in PipeLines : CmdMail(c, raw, {})
    \/ \E c \in Solo, raw \in PipeLines : CmdRcpt(c, raw)
    \/ \E c \in Solo, raw \in PipeLines : CmdData(c, raw)
    \/ \E c \in Solo, raw \in BodyLines : DataLine(c, raw, {})
    \/ \E f \in DeliveryFaults : SaveMailWorker(f)
    \/ \E r \in retrying, f \in RetryFaults : AddToRetry(r, f)
    \/ PromoteRoom /\ schedulerWorker({})

SpecPipe == Init /\ [][NextPipe]_vars

-----------------------------------------------------------------------------
(* SpecRetry: the retry cycle. The queue holds what sessions have          *)
(* committed: a message for a remote recipient, a message for a local      *)
(* one, or both. The delivery worker, the retry goroutines and the         *)
(* promoter run; every store operation and every delivery may fail.        *)

\* RCPT TO without angle brackets: the only form whose domain getDomain
\* finds among LocalDomains
lRCPTbare == Line(kRCPT \o eLocal)

\* the session of user a at the commit of a message to rcptLine
Committing(rcptLine) ==
    [NewSession EXCEPT !.authenticated = TRUE, !.state = StateData,
                       !.userName = uA, !.mailFrom = TrimSpace(lMAILa),
                       !.rcpt = TrimSpace(rcptLine),
                       !.data = TrimSpace(lTEXT) \o <<"\n">>]

\* the payloads of the first commits of the process
Commits(rcptLines) ==
    [i \in 1 .. Len(rcptLines) |->
        Marshal(NewMessage(Committing(rcptLines[i]), NextID(i)))]

PushEach(ps) == [i \in 1 .. Len(ps) |-> Pushed(ps[i], "commit")]

RECURSIVE LPushEach(_, _)
LPushEach(q, ps) ==
    IF ps = <<>> THEN q ELSE LPushEach(LPush(q, Head(ps)), Tail(ps))

InitRetry ==
    /\ InitSession /\ InitGate
    /\ retryq = {} /\ failedq = <<>>
    /\ mailbox = {} /\ mails = {} /\ retrying = {}
    /\ now = StartTime
    /\ \E rcptLines \in {<<lRCPT>>, <<lRCPTbare>>, <<lRCPTbare, lRCPT>>} :
         /\ queue = LPushEach(<<>>, Commits(rcptLines))
         /\ pushed = PushEach(Commits(rcptLines))
         /\ idSeq = Len(rcptLines)

WorkerFaults ==
    {{}, {"brpop"}, {"hsetMailbox"}, {"lookupMX"}, {"SendSMTP"}, {"hsetMail"}}
AllRetryFaults == {{}, {"zadd"}, {"rpush"}}
PromoterFaults == {{}, {"zrange"}}

NextRetry ==
    \/ \E f \in WorkerFaults : SaveMailWorker(f)
    \/ \E r \in retrying, f \in AllRetryFaults : AddToRetry(r, f)
    \/ \E f \in PromoterFaults : schedulerWorker(f)

SpecRetry == InitRetry /\ [][NextRetry]_vars

-----------------------------------------------------------------------------
(* SpecMain: the goroutines main starts. A connection handler serves one   *)
(* user who logs in and submits messages, SaveMailWorker takes them from   *)
(* the queue and a retry goroutine runs for every failed attempt; the      *)
(* worker and the retry goroutines are scheduled fairly. Nothing else      *)
(* runs: main starts no promoter.                                          *)

Submission ==
    \/ \E c \in Solo : CmdAuth(c, lAUTH)
    \/ \E c \in Solo, raw \in UserLines :
            ipCount[AddrOf(c)] < MaxLogins /\ AuthUser(c, raw, {})
    \/ \E c \in Solo, raw \in GoodPassLines : AuthPass(c, raw, {})
    \/ \E c \in Solo, raw \in PipeLines : CmdHelo(c, raw)
    \/ \E c \in Solo, raw \in PipeLines : CmdMail(c, raw, {})
    \/ \E c \in Solo, raw \in PipeLines : CmdRcpt(c, raw)
    \/ \E c \in Solo, raw \in PipeLines : CmdData(c, raw)
    \/ \E c \in Solo, raw \in BodyLines : DataLine(c, raw, {})

Delivery == \E f \in DeliveryFaults : SaveMailWorker(f)
Retrying == \E r \in retrying : AddToRetry(r, {})

NextMain == Submission \/ Delivery \/ Retrying

SpecMain ==
    Init /\ [][NextMain]_vars /\ WF_vars(Delivery) /\ WF_vars(Retrying)

-----------------------------------------------------------------------------
(* SpecFails: the failure counter at every height. One connection has      *)
(* sent the username of the first user and is asked for the password; the  *)
(* store holds any number of earlier failures of that user, and a lock     *)
(* that another connection's failure has set since, or none.               *)

\* the failures the store may hold at the start
MaxFails == 16

InitFails ==
    /\ InitPipe
    /\ session = [c \in Conns |-> NewSession]
    /\ pc = [c \in Conns |-> IF c \in Solo THEN "pass" ELSE "cmd"]
    /\ authUser = [c \in Conns |-> IF c \in Solo THEN uA ELSE <<>>]
    /\ body = [c \in Conns |-> <<>>]
    /\ eof = [c \in Conns |-> FALSE]
    /\ last = [c \in Conns |->
                 IF c \in Solo
                 THEN [line |-> Line(EncodeToString(uA)), reply |-> R334Pass,
                       n |-> 0]
                 ELSE [line |-> <<>>, reply |-> R220, n |-> 0]]
    /\ userCount = [u \in Names |-> IF u = uA THEN 1 ELSE 0]
    /\ userExp = [u \in Names |-> IF u = uA THEN now + RateWindow ELSE 0]
    /\ ipCount = [a \in Addrs |-> IF a = "ip1" THEN 1 ELSE 0]
    /\ ipExp = [a \in Addrs |-> IF a = "ip1" THEN now + RateWindow ELSE 0]
    /\ \E n \in 0 .. MaxFails :
         /\ failCount = [u \in Names |-> IF u = uA THEN n ELSE 0]
         /\ failExp = [u \in Names |->
                          IF u = uA /\ n > 0 THEN now + RateWindow ELSE 0]
    /\ \E d \in {0, LockDuration} :
         lockExp = [u \in Names |-> IF u = uA /\ d > 0 THEN now + d ELSE 0]

NextFails ==
    \/ \E c \in Solo : CmdAuth(c, lAUTH)
    \/ \E c \in Solo, raw \in AuthUserLines : AuthUser(c, raw, {})
    \/ \E c \in Solo, raw \in PassLines : AuthPass(c, raw, {})
    \/ \E d \in TickSteps : Tick(d)

SpecFails == InitFails /\ [][NextFails]_vars

-----------------------------------------------------------------------------
(* SpecSplit: the authentication gate with the store operations of         *)
(* IncreaseFails as steps of their own, so that the failures and the       *)
(* successes of two connections interleave between an Incr and its         *)
(* Expire.                                                                 *)

NextSplit ==
    \/ \E c \in Conns : CmdAuth(c, lAUTH)
    \/ \E c \in Conns, raw \in AuthUserLines : AuthUser(c, raw, {})
    \/ \E c \in Conns, raw \in PassLines : AuthPassSplit(c, raw, {})
    \/ \E c \in Conns : FailExpire(c)
    \/ \E d \in TickSteps : Tick(d)

SpecSplit == InitAuth /\ [][NextSplit]_vars

-----------------------------------------------------------------------------
(* SpecWindow: the rate windows. Two connections run AUTH LOGIN exchanges  *)
(* for one user, who knows the password, while time passes in half         *)
(* windows, for a window and a half.                                       *)

\* seconds of one behaviour of SpecWindow
WindowHorizon == 450

WindowSteps == {RateWindow \div 2}

NextWindow ==
    \/ \E c \in Conns : CmdAuth(c, lAUTH)
    \/ \E c \in Conns, raw \in AuthUserLines : AuthUser(c, raw, {})
    \/ \E c \in Conns, raw \in GoodPassLines : AuthPass(c, raw, {})
    \/ \E d \in WindowSteps : TickWithin(d, WindowHorizon)

SpecWindow == Init /\ [][NextWindow]_vars

-----------------------------------------------------------------------------
(* What the properties below read from a step.                             *)

\* connection c has read a line in this step
Step(c) == last'[c].n # last[c].n

\* connection c has read a command line that selects the case kind
CmdStep(c, kind) ==
    /\ Step(c) /\ pc[c] = "cmd" /\ ~eof[c]
    /\ Dispatch(TrimSpace(last'[c].line)) = kind

\* connection c has read a line of a DATA body
BodyStep(c) == Step(c) /\ pc[c] = "body" /\ ~eof[c]

\* the x of a line MAIL FROM:<x> or RCPT TO:<x>
Between(line, keyword) ==
    SubSeq(TrimSpace(line), Len(keyword) + 2, Len(TrimSpace(line)) - 1)

Cleared(s) == s.mailFrom = <<>> /\ s.rcpt = <<>> /\ s.data = <<>>

Positive(r) == Code(r) >= 200 /\ Code(r) < 400

-----------------------------------------------------------------------------
(* C1 as stated: in a session that is not authenticated, every command     *)
(* line other than AUTH LOGIN, RSET and QUIT is answered 530, and the      *)
(* session is left as it was.                                              *)
C1_Stated ==
    [][\A c \in Conns :
        (/\ Step(c) /\ pc[c] = "cmd" /\ ~eof[c]
         /\ ~session[c].authenticated
         /\ Dispatch(TrimSpace(last'[c].line)) \notin {"AUTH", "RSET", "QUIT"})
        => /\ last'[c].reply = R530
           /\ session'[c] = session[c]]_vars

(* C1 as amended: in a session that is not authenticated, HELO, MAIL FROM, *)
(* RCPT TO and DATA are answered 530 and a line that is no command is      *)
(* answered 500; none of them gets a 2xx or 3xx reply, in any session      *)
(* state, and the session is left as it was.                               *)
C1_Gate ==
    [][\A c \in Conns :
        (/\ Step(c) /\ pc[c] = "cmd" /\ ~eof[c]
         /\ ~session[c].authenticated
         /\ Dispatch(TrimSpace(last'[c].line)) \notin {"AUTH", "RSET", "QUIT"})
        => /\ last'[c].reply =
                 IF Dispatch(TrimSpace(last'[c].line)) = "default"
                 THEN R500 ELSE R530
           /\ ~Positive(last'[c].reply)
           /\ session'[c] = session[c]]_vars

\* DATA was answered 530 in a session that RSET had moved to HELO
C1_Witness ==
    \E c \in Conns :
        /\ ~session[c].authenticated /\ session[c].state = StateHelo
        /\ last[c].line = lDATA /\ last[c].reply = R530

-----------------------------------------------------------------------------
\* the state each command requires
Required(kind) ==
    CASE kind = "HELO" -> StateInit
      [] kind = "MAIL" -> StateHelo
      [] kind = "RCPT" -> StateMail
      [] kind = "DATA" -> StateRcpt

(* C2: in an authenticated session HELO outside INIT, MAIL FROM outside    *)
(* HELO, RCPT TO outside MAIL and DATA outside RCPT are answered 503 and   *)
(* leave the session exactly as it was, in every reachable state.          *)
C2_BadSequence ==
    [][\A c \in Conns : \A kind \in {"HELO", "MAIL", "RCPT", "DATA"} :
        (/\ CmdStep(c, kind)
         /\ session[c].authenticated
         /\ session[c].state # Required(kind))
        => /\ last'[c].reply = R503
           /\ session'[c] = session[c]
           /\ pc'[c] = "cmd"]_vars

\* HELO was answered 503 in state DATA, with a transaction in the session
C2_Witness ==
    \E c \in Conns :
        /\ session[c].authenticated /\ session[c].state = StateData
        /\ session[c].mailFrom # <<>> /\ session[c].rcpt # <<>>
        /\ last[c].line = lHELO /\ last[c].reply = R503

-----------------------------------------------------------------------------
\* the step of connection c is a transition of the table of section 4.4
TableStep(c) ==
    LET from == session[c].state
        to   == session'[c].state
    IN  \/ CmdStep(c, "HELO") /\ from = StateInit /\ to = StateHelo
        \/ CmdStep(c, "MAIL") /\ from = StateHelo /\ to = StateMail
        \/ CmdStep(c, "RCPT") /\ from = StateMail /\ to = StateRcpt
        \/ CmdStep(c, "DATA") /\ from = StateRcpt /\ to = StateData
        \/ /\ BodyStep(c) /\ TrimSpace(last'[c].line) = kDOT
           /\ from = StateData /\ to = StateHelo
        \/ CmdStep(c, "RSET") /\ to = StateHelo

(* C3 as stated: every change of a session's state is a transition of the  *)
(* table; an AUTH LOGIN exchange leaves the state as it was.               *)
C3_Stated ==
    [][\A c \in Conns :
        session'[c].state # session[c].state => TableStep(c)]_vars

-----------------------------------------------------------------------------
(* C4 as stated: in an authenticated session in state HELO, with the       *)
(* registry readable, MAIL FROM:<x> is answered 250 and moves the session  *)
(* to MAIL if and only if x is the bound email of the session's username;  *)
(* for every other x it is answered 535, the state stays HELO and          *)
(* mail_from stays unset.                                                  *)
C4_Stated ==
    [][\A c \in Conns :
        (/\ CmdStep(c, "MAIL")
         /\ CmdMail(c, last'[c].line, {})
         /\ session[c].authenticated
         /\ session[c].state = StateHelo)
        => IF Between(last'[c].line, kMAIL)
                = Registry[session[c].userName].email
           THEN /\ last'[c].reply = R250
                /\ session'[c].state = StateMail
           ELSE /\ last'[c].reply = R535
                /\ session'[c].state = StateHelo
                /\ session'[c].mailFrom = <<>>]_vars

-----------------------------------------------------------------------------
\* the message the commit of connection c pushes, as the queue holds it
Committed(c, p) ==
    /\ p.username = session[c].userName
    /\ p.from = session[c].mailFrom
    /\ p.to = session[c].rcpt
    /\ p.data = body[c]
    /\ p.retry = 0

\* the steps of a transaction of connection c, each answered as accepted
Accepted(c) ==
    /\ (/\ CmdStep(c, "MAIL") /\ session[c].state = StateHelo
        /\ Between(last'[c].line, kMAIL) = Registry[session[c].userName].email)
       => /\ last'[c].reply = R250
          /\ session'[c].state = StateMail
    /\ (CmdStep(c, "RCPT") /\ session[c].state = StateMail)
       => /\ last'[c].reply = R250
          /\ session'[c].state = StateRcpt
    /\ (CmdStep(c, "DATA") /\ session[c].state = StateRcpt)
       => /\ last'[c].reply = R354
          /\ session'[c].state = StateData
          /\ pc'[c] = "body"
    /\ (BodyStep(c) /\ TrimSpace(last'[c].line) # kDOT)
       => /\ last'[c].reply = NoReply
          /\ pc'[c] = "body"
          /\ queue' = queue /\ pushed' = pushed
    /\ (BodyStep(c) /\ TrimSpace(last'[c].line) = kDOT)
       => /\ last'[c].reply = R250Accepted
          /\ Len(queue') = Len(queue) + 1
          /\ Committed(c, queue'[1])
          /\ SubSeq(queue', 2, Len(queue')) = queue
          /\ Len(pushed') = Len(pushed) + 1
          /\ session'[c].state = StateHelo
          /\ Cleared(session'[c])
          /\ session'[c].authenticated
          /\ session'[c].userName = session[c].userName
          /\ pc'[c] = "cmd"

(* C5: in an authenticated session every transaction started in state     *)
(* HELO as MAIL FROM:<bound email>, RCPT TO, DATA, body lines, '.' is      *)
(* answered 250, 250, 354, 250; with the last 250 exactly one message is   *)
(* on the queue that was not there before, and the session is in HELO with *)
(* cleared fields and still authenticated, so that the next transaction is *)
(* accepted in the same way.                                               *)
C5_Transactions ==
    [][\A c \in Conns : session[c].authenticated => Accepted(c)]_vars

\* two messages were accepted on a connection that logged in once
C5_Witness ==
    \E c \in Conns :
        /\ Len(pushed) = 2 /\ Len(queue) = 2
        /\ ipCount[AddrOf(c)] = 1
        /\ last[c].reply = R250Accepted
        /\ session[c].authenticated /\ session[c].state = StateHelo

-----------------------------------------------------------------------------
\* the line connection c read last was a RSET
AfterRset(c) ==
    /\ Dispatch(TrimSpace(last[c].line)) = "RSET" /\ last[c].reply = R250
    /\ pc[c] = "cmd"

\* what RSET does
RsetResets(c) ==
    CmdStep(c, "RSET")
    => /\ last'[c].reply = R250
       /\ session'[c].state = StateHelo
       /\ Cleared(session'[c])
       /\ session'[c].authenticated = session[c].authenticated
       /\ session'[c].userName = session[c].userName

(* C6 as stated: RSET in any state is answered 250, sets the state to HELO *)
(* and clears the transaction fields; a RCPT TO directly after it is       *)
(* answered 503.                                                           *)
C6_Stated ==
    [][\A c \in Conns :
        /\ RsetResets(c)
        /\ (CmdStep(c, "RCPT") /\ AfterRset(c)) => last'[c].reply = R503]_vars

(* C6 as amended: RSET in any state is answered 250, sets the state to     *)
(* HELO and clears the transaction fields; a RCPT TO directly after it is  *)
(* answered 503 in an authenticated session and 530 in one that is not,    *)
(* and changes nothing; in an authenticated session a complete transaction *)
(* issued after it is accepted.                                            *)
C6_Rset ==
    [][\A c \in Conns :
        /\ RsetResets(c)
        /\ (CmdStep(c, "RCPT") /\ AfterRset(c))
           => /\ last'[c].reply =
                    IF session[c].authenticated THEN R503 ELSE R530
              /\ session'[c] = session[c]
        /\ session[c].authenticated => Accepted(c)]_vars

\* a RSET was answered in an authenticated session that had accepted a
\* message before
C6_Witness ==
    \E c \in Conns :
        /\ last[c].line = lRSET /\ last[c].reply = R250
        /\ session[c].authenticated /\ session[c].state = StateHelo
        /\ Cleared(session[c]) /\ pushed # <<>>

-----------------------------------------------------------------------------
\* connection c has read the username line of an AUTH LOGIN exchange
UserStep(c) == Step(c) /\ pc[c] = "user"

\* connection c has read the password line of an AUTH LOGIN exchange
PassStep(c) == Step(c) /\ pc[c] = "pass"

\* the identity the username line just read names
Named(c) == DecodeString(TrimSpace(last'[c].line))

\* the rate limiter admits one more attempt for u from the address of c
Admits(c, u) == userCount[u] < UserLimit /\ ipCount[AddrOf(c)] < IPLimit

(* C7: once an identity has five or more failures on its counter, an AUTH  *)
(* LOGIN exchange for it that the rate limiter admits while its lock flag  *)
(* is present is answered 535 Account temporarily locked at the username   *)
(* line: no password is asked for, no password is checked (no failure is   *)
(* counted, no lock written) and the session is not authenticated by it.   *)
C7_Locked ==
    [][\A c \in Conns :
        (/\ UserStep(c)
         /\ failCount[Named(c)] >= FailLimit
         /\ lockExp[Named(c)] # 0
         /\ Admits(c, Named(c)))
        => /\ last'[c].reply = R535Locked
           /\ pc'[c] = "cmd"
           /\ session' = session
           /\ UNCHANGED failVars]_vars

\* an exchange for a user with five failures was answered 535 Account
\* temporarily locked while the lock was present
C7_Witness ==
    \E c \in Conns :
        /\ last[c].reply = R535Locked /\ pc[c] = "cmd"
        /\ failCount[uA] >= FailLimit /\ lockExp[uA] # 0

-----------------------------------------------------------------------------
(* C8: an exchange that ends in 235 deletes the failure counter of its    *)
(* identity and leaves every lock flag as it was; a failed attempt that    *)
(* finds no counter sets it to 1 with a TTL of ten minutes.                *)
C8_Clear ==
    [][\A c \in Conns :
        /\ (PassStep(c) /\ last'[c].reply = R235)
           => /\ failCount'[authUser[c]] = 0
              /\ failExp'[authUser[c]] = 0
              /\ lockExp' = lockExp
        /\ (PassStep(c) /\ last'[c].reply = R535
                        /\ failCount[authUser[c]] = 0)
           => /\ failCount'[authUser[c]] = 1
              /\ failExp'[authUser[c]] = now + FailWindow]_vars

\* an exchange ended in 235 while the lock of its identity was present: the
\* counter that led to the lock is gone, the lock is still there
C8_Witness ==
    \E c \in Conns :
        /\ last[c].reply = R235 /\ session[c].userName = uA
        /\ failCount[uA] = 0 /\ failExp[uA] = 0 /\ lockExp[uA] # 0

-----------------------------------------------------------------------------
(* C9: the username line of an exchange increments the counter of the      *)
(* identity and that of the address; the exchange is answered 454 if and   *)
(* only if the identity's counter is then above 5 or the address's above   *)
(* 20, and an exchange answered 454 asks for no password, counts no        *)
(* failure and leaves the session alone.                                   *)
C9_Validate ==
    [][\A c \in Conns :
        UserStep(c)
        => /\ userCount'[Named(c)] = userCount[Named(c)] + 1
           /\ ipCount'[AddrOf(c)] = ipCount[AddrOf(c)] + 1
           /\ (last'[c].reply = R454)
              <=> (\/ userCount'[Named(c)] > UserLimit
                   \/ ipCount'[AddrOf(c)] > IPLimit)
           /\ (last'[c].reply = R454)
              => /\ pc'[c] = "cmd"
                 /\ session' = session
                 /\ UNCHANGED failVars]_vars

\* the 21st attempt from the first address and the 6th attempt for the user,
\* made from the second address, have both been answered 454
C9_Witness ==
    /\ last[1].reply = R454 /\ ipCount[AddrOf(1)] = IPLimit + 1
    /\ last[2].reply = R454 /\ ipCount[AddrOf(2)] <= IPLimit
    /\ userCount[uA] = UserLimit + 1

-----------------------------------------------------------------------------
PushedBy(i, by) == pushed[i].by = by

-----------------------------------------------------------------------------
(* Where a message is. A message is known by its id, as the float64 the    *)
(* worker reads it as.                                                     *)
QueueIds == {Float64(queue[i].id) : i \in DOMAIN queue}
HandIds == {r.msg.id[2] : r \in retrying}
RetryIds == {e.member.id : e \in retryq}
DeadIds == {failedq[i].id : i \in DOMAIN failedq}
MailboxIds == {h.key[2] : h \in mailbox}
MailIds == {h.key : h \in mails}

\* a retry goroutine has run for the failed attempt r
Retried(r) == r \in retrying /\ r \notin retrying'

\* the failed attempt r has left the message with a retry field one higher
CountedOnce(r) ==
    \/ \E e \in retryq' \ retryq :
          /\ e.member.id = r.msg.id[2]
          /\ e.member.retry = Tries(r.msg) + 1
    \/ /\ Len(failedq') = Len(failedq) + 1
       /\ failedq'[Len(failedq')].id = r.msg.id[2]
       /\ failedq'[Len(failedq')].retry = Tries(r.msg) + 1

\* a message on the dead-letter list is nowhere else
DeadOnly ==
    DeadIds \cap (QueueIds \cup HandIds \cup RetryIds \cup MailboxIds
                    \cup MailIds) = {}

(* C11 as stated: every failed delivery attempt raises the retry field of  *)
(* the message by exactly one; the sixth failure puts the message on the   *)
(* dead-letter list, and a message on that list is in no queue, retry set, *)
(* mailbox record or persistence record, and stays on the list.            *)
C11_Stated ==
    [][/\ \A r \in retrying :
            Retried(r)
            => /\ CountedOnce(r)
               /\ (Tries(r.msg) + 1 > MaxTries) <=> (failedq' # failedq)
       /\ DeadOnly'
       /\ DeadIds \subseteq DeadIds']_vars

-----------------------------------------------------------------------------
(* C12 as stated: a message that has failed a delivery attempt does not    *)
(* stay in the retry set: whenever the retry set holds a message, the      *)
(* message is later taken out of it and pushed back onto the queue, and    *)
(* in the end every accepted message is delivered or dead-lettered.        *)
C12_Stated ==
    \A id \in {Float64(NextID(n)) : n \in 1 .. MaxIds} :
        (id \in RetryIds) ~> (id \in QueueIds \/ id \in DeadIds
                                \/ id \in MailIds)

-----------------------------------------------------------------------------
(* C13 as stated: when the terminator of a DATA body is read and the       *)
(* commit fails, the reply is 451, the submission queue is left as it      *)
(* was, the transaction fields are cleared and the session is in state     *)
(* HELO.                                                                   *)
C13_Stated ==
    [][\A c \in Conns :
        (/\ BodyStep(c)
         /\ TrimSpace(last'[c].line) = kDOT
         /\ last'[c].reply # R250Accepted)
        => /\ Code(last'[c].reply) = 451
           /\ queue' = queue
           /\ Cleared(session'[c])
           /\ session'[c].state = StateHelo]_vars

-----------------------------------------------------------------------------
\* a read of connection c has failed: the client had gone
FailedRead(c) == Step(c) /\ eof[c]

(* C14 as stated: a read that fails while a command line is awaited ends   *)
(* the handler with 451; one that fails while a username or a password is  *)
(* awaited authenticates nobody; one that fails while a body line is       *)
(* awaited takes the handler out of the body loop and enqueues nothing;    *)
(* and a handler that has ended writes nothing more.                       *)
C14_Stated ==
    [][\A c \in Conns :
        /\ (FailedRead(c) /\ pc[c] = "cmd")
           => pc'[c] = "closed" /\ last'[c].reply = R451Server
        /\ (FailedRead(c) /\ pc[c] \in {"user", "pass"})
           => pc'[c] \in {"pass", "cmd"} /\ session' = session
        /\ (FailedRead(c) /\ pc[c] = "body")
           => pc'[c] # "body" /\ pushed' = pushed
        /\ pc[c] = "closed" => last'[c] = last[c] /\ pc'[c] = "closed"]_vars

-----------------------------------------------------------------------------
(* C15 as stated: the username of an authenticated session never changes,  *)
(* no exchange ends in 235 in a session that is authenticated already, and *)
(* every payload a session pushes carries the username of the session.     *)
C15_Stated ==
    [][\A c \in Conns :
        /\ session[c].authenticated
           => /\ session'[c].authenticated
              /\ session'[c].userName = session[c].userName
        /\ (PassStep(c) /\ last'[c].reply = R235)
           => ~session[c].authenticated
        /\ (BodyStep(c) /\ last'[c].reply = R250Accepted)
           => queue'[1].username = session[c].userName]_vars

-----------------------------------------------------------------------------
(* C16: the username line of an exchange first counts the attempt in both  *)
(* rate counters; when the identity is then over a limit the exchange is   *)
(* answered 454, also while the identity is locked, and only an admitted   *)
(* exchange of a locked identity is answered 535 Account temporarily       *)
(* locked; the password is asked for only when neither is the case.        *)
C16_Order ==
    [][\A c \in Conns :
        UserStep(c)
        => /\ userCount'[Named(c)] = userCount[Named(c)] + 1
           /\ ipCount'[AddrOf(c)] = ipCount[AddrOf(c)] + 1
           /\ (~Admits(c, Named(c)) /\ lockExp[Named(c)] # 0)
              => last'[c].reply = R454
           /\ (last'[c].reply = R535Locked) => Admits(c, Named(c))
           /\ (pc'[c] = "pass")
              => Admits(c, Named(c)) /\ lockExp[Named(c)] = 0]_vars

\* an exchange for an identity that is locked and over its limit has been
\* answered 454
C16_Witness ==
    \E c \in Conns :
        /\ last[c].reply = R454
        /\ lockExp[uA] # 0 /\ userCount[uA] > UserLimit
        /\ ipCount[AddrOf(c)] <= IPLimit

-----------------------------------------------------------------------------
\* connection c has sent a password that was counted as a failure
FailureStep(c) == PassStep(c) /\ last'[c].reply = R535

\* the lock duration of the spec for a failure count of n
Tier(n) ==
    IF n >= 3 * FailLimit THEN 6 * LockDuration
    ELSE IF n >= 2 * FailLimit THEN 3 * LockDuration
    ELSE LockDuration

(* C18: a counted failure raises the failure counter of its identity by    *)
(* one; when the new count is 5 or more it sets the lock of the identity   *)
(* to expire after the base duration (counts 5 to 9), three times (10 to   *)
(* 14) or six times the base duration (15 and more); when the new count    *)
(* is below 5 the lock of the identity is left as it was. No other lock    *)
(* is touched.                                                             *)
C18_Lock ==
    [][\A c \in Conns :
        FailureStep(c)
        => LET u == authUser[c]
               n == failCount[u] + 1
           IN  /\ failCount'[u] = n
               /\ lockExp'[u] = IF n >= FailLimit THEN now + Tier(n)
                                ELSE lockExp[u]
               /\ \A v \in Names \ {u} : lockExp'[v] = lockExp[v]]_vars

\* a fifteenth or later failure has set a lock of six times the base
\* duration
C18_Witness ==
    \E c \in Conns :
        /\ last[c].reply = R535
        /\ failCount[uA] >= 3 * FailLimit
        /\ lockExp[uA] = now + 6 * LockDuration

-----------------------------------------------------------------------------
\* a call of IncreaseFails for u is between its Incr and its Expire
Expiring(u) == \E c \in Conns : pc[c] = "expire" /\ authUser[c] = u

\* every failure counter that exists and is in no such call carries a TTL
Ttl ==
    \A u \in Names :
        (failCount[u] > 0 /\ ~Expiring(u)) => failExp[u] > now

(* C19: an increment of a failure counter that exists leaves its TTL as    *)
(* it was; the TTL of ten minutes is written by the Expire of a call       *)
(* whose Incr returned 1; and whenever no call for an identity is between  *)
(* its Incr and its Expire, the counter of the identity carries a TTL if   *)
(* it exists, however failures and successes of connections interleave.    *)
C19_Ttl ==
    [][/\ Ttl'
       /\ \A u \in Names :
            /\ (failCount[u] > 0 /\ failCount'[u] = failCount[u] + 1)
               => failExp'[u] = failExp[u]
            /\ (failExp'[u] # failExp[u] /\ failExp'[u] # 0)
               => /\ failExp'[u] = now + FailWindow
                  /\ \E c \in Conns :
                        /\ pc[c] = "expire" /\ authUser[c] = u
                        /\ pc'[c] = "cmd"]_vars

\* a call is between its Incr and its Expire while the success of another
\* connection has deleted the counter
C19_Witness ==
    \E c, d \in Conns :
        /\ c # d /\ pc[c] = "expire" /\ authUser[c] = uA
        /\ last[d].reply = R235 /\ failCount[uA] = 0

-----------------------------------------------------------------------------
\* every rate counter that exists expires within one window from now
Window ==
    /\ \A u \in Names :
          userCount[u] > 0 => now < userExp[u] /\ userExp[u] <= now + RateWindow
    /\ \A a \in Addrs :
          ipCount[a] > 0 => now < ipExp[a] /\ ipExp[a] <= now + RateWindow

(* C20: an attempt that finds no counter starts its window, which ends     *)
(* W_rate later; an attempt that finds the counter leaves the end of the   *)
(* window where it was; no counter outlives its window; and an attempt     *)
(* that finds neither counter is admitted.                                 *)
C20_Window ==
    [][/\ Window'
       /\ \A c \in Conns :
            UserStep(c)
            => /\ userExp'[Named(c)] =
                    IF userCount[Named(c)] = 0 THEN now + RateWindow
                    ELSE userExp[Named(c)]
               /\ ipExp'[AddrOf(c)] =
                    IF ipCount[AddrOf(c)] = 0 THEN now + RateWindow
                    ELSE ipExp[AddrOf(c)]
               /\ (userCount[Named(c)] = 0 /\ ipCount[AddrOf(c)] = 0)
                  => last'[c].reply # R454]_vars

\* the user was answered 454 on the first connection and, a window after
\* the start, is admitted on the second with a counter that starts again
C20_Witness ==
    /\ last[1].reply = R454
    /\ pc[2] = "pass" /\ last[2].reply = R334Pass
    /\ userCount[uA] = 1 /\ userExp[uA] = now + RateWindow
    /\ now >= StartTime + RateWindow

-----------------------------------------------------------------------------
\* the ids of the messages that sessions have committed
AcceptedIds ==
    {Float64(pushed[i].id) : i \in {j \in DOMAIN pushed : PushedBy(j, "commit")}}

(* C17 as stated: every message a session has committed is on the          *)
(* submission queue, with a retry goroutine, in the retry set, on the      *)
(* dead-letter list, or in a mailbox or persistence record.                *)
C17_Stated ==
    AcceptedIds \subseteq
        (QueueIds \cup HandIds \cup RetryIds \cup DeadIds \cup MailboxIds
            \cup MailIds)

-----------------------------------------------------------------------------
(* SpecLogin: the password step. One connection runs AUTH LOGIN exchanges  *)
(* for a registered and for an unregistered username, between HELO and     *)
(* RSET commands and after earlier successes. The read of the registry may *)
(* fail; the store of the gate answers.                                    *)

LoginUserLines == {Line(EncodeToString(uA)), Line(EncodeToString(uGhost))}

NextLogin ==
    \/ \E c \in Solo : CmdAuth(c, lAUTH)
    \/ \E c \in Solo : CmdHelo(c, lHELO)
    \/ \E c \in Solo : CmdRset(c, lRSET)
    \/ \E c \in Solo, raw \in LoginUserLines :
            ipCount[AddrOf(c)] < MaxLogins /\ AuthUser(c, raw, {})
    \/ \E c \in Solo, raw \in PassLines, f \in RegistryFaults :
            AuthPass(c, raw, f)
    \/ \E c \in Solo : ClientClose(c)

SpecLogin == Init /\ [][NextLogin]_vars

\* the password the line just read by connection c carries
Offered(c) == DecodeString(TrimSpace(last'[c].line))

\* the failure counter of u grows by one, the other counters stay
CountsOne(u) ==
    failCount' = [failCount EXCEPT ![u] = failCount[u] + 1]

-----------------------------------------------------------------------------
(* The delivery worker, seen from the store.                               *)

\* the worker takes the message at the tail of the queue
Pops == queue # <<>> /\ queue' = SubSeq(queue, 1, Len(queue) - 1)

\* the message it takes
Popped == Unmarshal(queue[Len(queue)])

\* the address a RCPT TO line gives, without keyword, blanks and brackets
RcptAddress(line) == Trim(TrimSpace(From(line, Len(kRCPT))), {"<", ">"})

\* the retries the step hands to AddToRetry
Scheduled == retrying' \ retrying

(* C22: a popped message whose RCPT TO address has a domain of the local   *)
(* domain set is handled by the local branch (its mailbox record is        *)
(* written, or the failed write is retried with bucket 3, and no MX lookup *)
(* is made); a message with any other recipient writes no mailbox record.  *)
C22_Stated ==
    [][Pops =>
         IF getDomain(RcptAddress(Popped.to)) \in LocalDomains
         THEN \/ MailboxRecord(Popped) \in mailbox'
              \/ Scheduled = {[msg |-> Popped, bucket |-> 3]}
         ELSE mailbox' = mailbox]_vars

\* a text without blank, colon and angle brackets: an address on its own
Bare(text) ==
    \A i \in DOMAIN text : text[i] \notin {"<", ">", ":", " "}

(* C23: in every message on the submission queue the from field is the     *)
(* bound email of the message's username and the to field is the address   *)
(* given in RCPT TO, both bare: without command keyword and without angle  *)
(* brackets.                                                               *)
C23_Stated ==
    \A i \in DOMAIN queue :
        LET m == Unmarshal(queue[i])
        IN  /\ m.from = HGetUser(m.username, "email")
            /\ Bare(m.from) /\ Bare(m.to)

(* C24: every entry put into the retry set has as score a time that is    *)
(* not earlier than the time of its insertion, and an entry leaves the     *)
(* retry set, for the submission queue, only when the current time has     *)
(* reached its score.                                                      *)
C24_Stated ==
    [][/\ \A e \in retryq' \ retryq : e.score >= now
       /\ \A e \in retryq \ retryq' :
            e.score <= now /\ \E i \in DOMAIN queue' : queue'[i] = e.member]_vars

\* the buckets of the retries the step schedules for message m
Buckets(m) == {r.bucket : r \in {s \in Scheduled : s.msg = m}}

C26_Stated ==
    [][\A c \in Conns :
         PassStep(c) /\ last'[c].reply = R235 =>
            lockExp[authUser[c]] = 0]_vars

-----------------------------------------------------------------------------
(* SpecGate: the rate limiter over a store that may fail. Two connections  *)
(* log in as one user again and again; in a call of Validate the Incr      *)
(* of the identity counter may fail alone, or every store operation of     *)
(* the call may fail (the store is away, or the deadline of the call has   *)
(* passed).                                                                *)

GateFaults ==
    {{}, {"incrUser"}, {"incrIp", "incrUser", "expireIp", "expireUser"}}

NextGate ==
    \/ \E c \in Conns : CmdAuth(c, lAUTH)
    \/ \E c \in Conns, raw \in AuthUserLines, f \in GateFaults :
            AuthUser(c, raw, f)
    \/ \E c \in Conns, raw \in GoodPassLines : AuthPass(c, raw, {})

SpecGate == Init /\ [][NextGate]_vars

(* C27: every password check is preceded, in the same exchange, by a call  *)
(* of validate that has counted the attempt on the counter of the identity *)
(* and found the count at most 5, also when store operations of the rate   *)
(* limiter fail: an exchange that is prompted for the password has raised  *)
(* the identity counter by one, to at most 5.                              *)
C27_Stated ==
    [][\A c \in Conns :
         UserStep(c) /\ pc'[c] = "pass" =>
            /\ userCount'[Named(c)] = userCount[Named(c)] + 1
            /\ userCount'[Named(c)] <= UserLimit]_vars

====
